---- MODULE Spec2Model ----
(***************************************************************************)
(* Model of mfr/extensions/zip/render.py (ZipRenderer): the sanitizer of   *)
(* the zip entry list, the fold of the entry list into the object tree and *)
(* the attachment of icon / date / size to a node.                         *)
(*                                                                         *)
(* A Python str is a sequence of one-character strings; a literal that is  *)
(* only ever concatenated (assets_url, '/img/folder.png', ...) is kept as  *)
(* one element of such a sequence.  A Python dict is a record whose DOMAIN *)
(* is the set of its keys, so dict.update is @@ with the new keys first.   *)
(* Python indexes from 0 and TLA+ from 1: `index' and `last_index' are the *)
(* source's values plus one.                                               *)
(***************************************************************************)
EXTENDS Integers, Sequences, FiniteSets, TLC

VARIABLES
    pc,         \* where the modelled call stands, or the exception it raised
    obj_list,   \* the list the call iterates over (ZipInfo-like records)
    index,      \* position of the for loop over obj_list (1-based)
    tree_root,  \* obj_list_to_tree: the root node under construction
    returned,   \* the list the call returned (<<>> until it returns)
    node        \* update_node_with_attributes: the node being updated

vars == <<pc, obj_list, index, tree_root, returned, node>>

(***************************************************************************)
(* Bounds of the model.                                                    *)
(***************************************************************************)
MaxObjs == 2        \* longest entry list
MaxPathLen == 3     \* longest filename, in characters
MaxFrags == 2       \* longest filename given to the sanitizer, in fragments

SeqsUpTo(S, n) == UNION {[1..k -> S] : k \in 0..n}

(***************************************************************************)
(* Python str methods, on sequences of characters.                         *)
(***************************************************************************)
startswith(s, prefix) ==
    /\ Len(prefix) <= Len(s)
    /\ SubSeq(s, 1, Len(prefix)) = prefix

endswith(s, suffix) ==
    /\ Len(suffix) <= Len(s)
    /\ SubSeq(s, Len(s) - Len(suffix) + 1, Len(s)) = suffix

\* s.find(c) + 1: position of the first c in s, 0 when there is none
find(s, c) ==
    IF \E i \in 1..Len(s) : s[i] = c
    THEN CHOOSE i \in 1..Len(s) : s[i] = c /\ \A j \in 1..(i - 1) : s[j] # c
    ELSE 0

\* s.rfind(c) + 1: position of the last c in s, 0 when there is none
rfind(s, c) ==
    IF \E i \in 1..Len(s) : s[i] = c
    THEN CHOOSE i \in 1..Len(s) : s[i] = c /\ \A j \in (i + 1)..Len(s) : s[j] # c
    ELSE 0

\* s.split(sep) for a one-character sep: always at least one (maybe empty) piece
RECURSIVE split(_, _)
split(s, sep) ==
    LET i == find(s, sep) IN
    IF i = 0 THEN <<s>>
    ELSE <<SubSeq(s, 1, i - 1)>> \o split(SubSeq(s, i + 1, Len(s)), sep)

\* s.lstrip(c)
RECURSIVE lstrip(_, _)
lstrip(s, c) ==
    IF s # <<>> /\ Head(s) = c THEN lstrip(Tail(s), c) ELSE s

lower_char(c) ==
    CASE c = "A" -> "a"
      [] c = "B" -> "b"
      [] OTHER -> c

\* s.lower()
lower(s) == [i \in 1..Len(s) |-> lower_char(s[i])]

\* os.path.splitext(p)[1] (posixpath: sep '/', extsep '.'): the extension
\* starts at the last '.' of the last path component, unless only '.'
\* characters precede it in that component
splitext_ext(p) ==
    LET sepIndex == rfind(p, "/")
        dotIndex == rfind(p, ".")
    IN  IF /\ dotIndex > sepIndex
           /\ \E filenameIndex \in (sepIndex + 1)..(dotIndex - 1) : p[filenameIndex] # "."
        THEN SubSeq(p, dotIndex, Len(p))
        ELSE <<>>

\* '%d' % n, for n >= 0
RECURSIVE fmt_d(_)
fmt_d(n) ==
    IF n < 10 THEN <<ToString(n)>> ELSE fmt_d(n \div 10) \o <<ToString(n % 10)>>

\* '%02d' % n, for n >= 0
fmt_02d(n) == IF n < 10 THEN <<"0">> \o fmt_d(n) ELSE fmt_d(n)

(***************************************************************************)
(* The renderer's surroundings.                                            *)
(***************************************************************************)
\* self.assets_url, only ever used as the head of a concatenation
assets_url == <<"{assets_url}">>

\* self.metadata.name and self.metadata.ext of the rendered archive
metadata_name == <<"z">>
metadata_ext == <<".", "z", "i", "p">>

\* the extensions ext for which static/img/file-ext-{ext}.png is a file
IconFiles == {<<"b">>}

\* mfr.core.utils.sizeof_fmt: the human-readable rendering of a byte count
sizeof_fmt(num) == <<"sizeof_fmt:">> \o fmt_d(num)

icon_exists(ext) == lower(ext) \in IconFiles

\* line 110
date_of(obj) ==
    LET dt == obj.date_time IN
    fmt_d(dt[1]) \o <<"-">> \o fmt_02d(dt[2]) \o <<"-">> \o fmt_02d(dt[3])
    \o <<" ">> \o fmt_02d(dt[4]) \o <<":">> \o fmt_02d(dt[5])
    \o <<":">> \o fmt_02d(dt[6])

\* line 111
size_of(obj) == IF obj.file_size # 0 THEN sizeof_fmt(obj.file_size) ELSE <<>>

\* lines 113-120 without .lower() on the extension
icon_path_keeping_case(obj, is_folder) ==
    LET ext == lstrip(splitext_ext(obj.filename), ".") IN
    IF is_folder THEN assets_url \o <<"/img/folder.png">>
    ELSE IF icon_exists(ext)
         THEN assets_url \o <<"/img/file-ext-">> \o ext \o <<".png">>
         ELSE assets_url \o <<"/img/file-ext-generic.png">>

\* lines 113-120
icon_path_of(obj, is_folder) ==
    LET ext == lower(lstrip(splitext_ext(obj.filename), ".")) IN
    IF is_folder THEN assets_url \o <<"/img/folder.png">>
    ELSE IF icon_exists(ext)
         THEN assets_url \o <<"/img/file-ext-">> \o ext \o <<".png">>
         ELSE assets_url \o <<"/img/file-ext-generic.png">>

\* lines 122-128 building the node anew instead of updating it
update_node_replacing(n, obj, is_folder) ==
    [text |-> n.text,
     children |-> <<>>,
     icon |-> icon_path_of(obj, is_folder),
     data |-> [date |-> date_of(obj), size |-> size_of(obj)]]

(***************************************************************************)
(* update_node_with_attributes                                             *)
(***************************************************************************)
update_node_with_attributes(n, obj, is_folder) ==
    [icon |-> icon_path_of(obj, is_folder),
     data |-> [date |-> date_of(obj), size |-> size_of(obj)]] @@ n

\* find_node_among_siblings reading a key no node has: sibling.get('name', '')
find_node_by_missing_key(segment, siblings) ==
    IF \E i \in 1..Len(siblings) : <<>> = segment
    THEN CHOOSE i \in 1..Len(siblings) : <<>> = segment
    ELSE 0

(***************************************************************************)
(* find_node_among_siblings: the position in siblings of the node the      *)
(* source returns a reference to, 0 for None                               *)
(***************************************************************************)
find_node_among_siblings(segment, siblings) ==
    IF \E i \in 1..Len(siblings) : siblings[i].text = segment
    THEN CHOOSE i \in 1..Len(siblings) :
            /\ siblings[i].text = segment
            /\ \A j \in 1..(i - 1) : siblings[j].text # segment
    ELSE 0

(***************************************************************************)
(* obj_list_to_tree                                                        *)
(***************************************************************************)
\* lines 47-51
new_tree_root ==
    [text |-> metadata_name \o metadata_ext,
     icon |-> assets_url \o <<"/img/file-ext-zip.png">>,
     children |-> <<>>]

\* line 58; the source evaluates it on a non-empty filename only
is_folder_of(path_from_root) == path_from_root[Len(path_from_root)] = "/"

\* line 59 without the `if segment' filter
path_segments_unfiltered(path_from_root) == split(path_from_root, "/")

\* line 59
path_segments_of(path_from_root) ==
    SelectSeq(split(path_from_root, "/"), LAMBDA segment : segment # <<>>)

\* the inner loop attaching the entry's attributes to every node it creates,
\* not only to the one of the last segment
RECURSIVE walk_segments_updating_all(_, _, _, _, _)
walk_segments_updating_all(parent, path_segments, idx, obj, is_folder) ==
    IF idx > Len(path_segments) THEN [node |-> parent, raised |-> FALSE]
    ELSE
    LET segment == path_segments[idx]
        last_index == Len(path_segments)
        siblings == parent.children
        current == find_node_among_siblings(segment, siblings)
        new_node == update_node_with_attributes(
                        [text |-> segment, children |-> <<>>], obj, is_folder)
    IN  IF current # 0
        THEN IF idx = last_index
             THEN IF ~is_folder
                  THEN [node |-> parent, raised |-> TRUE]
                  ELSE [node |-> [parent EXCEPT !.children[current] =
                                    update_node_with_attributes(@, obj, is_folder)],
                        raised |-> FALSE]
             ELSE LET below == walk_segments_updating_all(siblings[current],
                                   path_segments, idx + 1, obj, is_folder)
                  IN  [node |-> [parent EXCEPT !.children[current] = below.node],
                       raised |-> below.raised]
        ELSE IF idx = last_index
             THEN [node |-> [parent EXCEPT !.children = Append(@, new_node)],
                   raised |-> FALSE]
             ELSE LET below == walk_segments_updating_all(new_node, path_segments,
                                   idx + 1, obj, is_folder)
                  IN  [node |-> [parent EXCEPT !.children = Append(@, below.node)],
                       raised |-> below.raised]

\* lines 64-98: the iterations of the inner loop from `index' on, with
\* `parent' the node the loop stands at.  The result is that node as the
\* loop leaves it, and whether `assert is_folder' failed on the way.
RECURSIVE walk_segments(_, _, _, _, _)
walk_segments(parent, path_segments, idx, obj, is_folder) ==
    IF idx > Len(path_segments) THEN [node |-> parent, raised |-> FALSE]
    ELSE
    LET segment == path_segments[idx]
        last_index == Len(path_segments)
        siblings == parent.children
        current == find_node_among_siblings(segment, siblings)
        new_node == [text |-> segment, children |-> <<>>]
    IN  IF current # 0
        THEN IF idx = last_index
             THEN IF ~is_folder
                  THEN [node |-> parent, raised |-> TRUE]
                  ELSE [node |-> [parent EXCEPT !.children[current] =
                                    update_node_with_attributes(@, obj, is_folder)],
                        raised |-> FALSE]
             ELSE LET below == walk_segments(siblings[current], path_segments,
                                             idx + 1, obj, is_folder)
                  IN  [node |-> [parent EXCEPT !.children[current] = below.node],
                       raised |-> below.raised]
        ELSE IF idx = last_index
             THEN [node |-> [parent EXCEPT !.children =
                       Append(@, update_node_with_attributes(new_node, obj, is_folder))],
                   raised |-> FALSE]
             ELSE LET below == walk_segments(new_node, path_segments,
                                             idx + 1, obj, is_folder)
                  IN  [node |-> [parent EXCEPT !.children = Append(@, below.node)],
                       raised |-> below.raised]

\* lines 56-98: one iteration of the outer loop, for a non-empty filename
fold_obj(root, obj) ==
    walk_segments(root, path_segments_of(obj.filename), 1, obj,
                  is_folder_of(obj.filename))

(***************************************************************************)
(* The entries a zip archive may list.                                     *)
(***************************************************************************)
\* the separator and one letter: labels differ by their length ('a', 'aa')
PathChars == {"a", "/"}
Paths == SeqsUpTo(PathChars, MaxPathLen)

\* (date_time, file_size) of an entry
Attrs == {<<<<2018, 3, 7, 9, 5, 0>>, 0>>, <<<<1980, 12, 31, 23, 59, 58>>, 1024>>}

ZipInfo(filename, attr) ==
    [filename |-> filename, date_time |-> attr[1], file_size |-> attr[2]]

Objs == {ZipInfo(p, a) : p \in Paths, a \in Attrs}

(***************************************************************************)
(* Spec: obj_list_to_tree called on any entry list.                        *)
(***************************************************************************)
Init ==
    /\ obj_list \in SeqsUpTo(Objs, MaxObjs)
    /\ pc = "loop"
    /\ index = 1
    /\ tree_root = new_tree_root
    /\ returned = <<>>
    /\ node = new_tree_root

\* line 58 on an empty filename: ''[-1]
RaiseIndexError ==
    /\ pc = "loop"
    /\ index <= Len(obj_list)
    /\ obj_list[index].filename = <<>>
    /\ pc' = "IndexError"
    /\ UNCHANGED <<obj_list, index, tree_root, returned, node>>

\* line 75: assert is_folder
RaiseAssertionError ==
    /\ pc = "loop"
    /\ index <= Len(obj_list)
    /\ obj_list[index].filename # <<>>
    /\ fold_obj(tree_root, obj_list[index]).raised
    /\ pc' = "AssertionError"
    /\ UNCHANGED <<obj_list, index, tree_root, returned, node>>

\* lines 53-98: one iteration of `for obj in obj_list'
FoldObj ==
    /\ pc = "loop"
    /\ index <= Len(obj_list)
    /\ obj_list[index].filename # <<>>
    /\ LET r == fold_obj(tree_root, obj_list[index]) IN
        /\ ~r.raised
        /\ tree_root' = r.node
    /\ index' = index + 1
    /\ UNCHANGED <<pc, obj_list, returned, node>>

\* line 100
ReturnTree ==
    /\ pc = "loop"
    /\ index > Len(obj_list)
    /\ returned' = <<tree_root>>
    /\ pc' = "returned"
    /\ UNCHANGED <<obj_list, index, tree_root, node>>

Next == RaiseIndexError \/ RaiseAssertionError \/ FoldObj \/ ReturnTree

Spec == Init /\ [][Next]_vars

(***************************************************************************)
(* sanitize_obj_list                                                       *)
(***************************************************************************)
MACOSX == <<"_", "_", "M", "A", "C", "O", "S", "X">>
DS_Store == <<".", "D", "S", "_", "S", "t", "o", "r", "e">>

\* the `continue' conditions with the '/' of '/.DS_Store' left out
sanitize_ignores_any_ds_store(obj_path) ==
    \/ startswith(obj_path, MACOSX \o <<"/">>)
    \/ obj_path = DS_Store
    \/ endswith(obj_path, DS_Store)

\* lines 163-167: the two `continue' conditions
sanitize_ignores(obj_path) ==
    \/ startswith(obj_path, MACOSX \o <<"/">>)
    \/ obj_path = DS_Store
    \/ endswith(obj_path, <<"/">> \o DS_Store)

\* filenames made of the pieces the sanitizer looks for
RECURSIVE concat(_)
concat(pieces) == IF pieces = <<>> THEN <<>> ELSE Head(pieces) \o concat(Tail(pieces))

SanitizerFrags == {MACOSX, DS_Store, <<"/">>}
SanitizerPaths == {concat(pieces) : pieces \in SeqsUpTo(SanitizerFrags, MaxFrags)}
SanitizerObjs == {ZipInfo(p, a) : p \in SanitizerPaths, a \in {<<<<2018, 3, 7, 9, 5, 0>>, 0>>}}

(***************************************************************************)
(* SpecSanitize: sanitize_obj_list called on any entry list; `returned' is *)
(* sanitized_obj_list.                                                     *)
(***************************************************************************)
InitSanitize ==
    /\ obj_list \in SeqsUpTo(SanitizerObjs, MaxObjs)
    /\ pc = "sanitize"
    /\ index = 1
    /\ tree_root = new_tree_root
    /\ returned = <<>>
    /\ node = new_tree_root

\* lines 159-167: an iteration that ends in `continue'
SanitizeIgnore ==
    /\ pc = "sanitize"
    /\ index <= Len(obj_list)
    /\ sanitize_ignores(obj_list[index].filename)
    /\ index' = index + 1
    /\ UNCHANGED <<pc, obj_list, tree_root, returned, node>>

\* lines 159-169: an iteration that appends the entry
SanitizeAppend ==
    /\ pc = "sanitize"
    /\ index <= Len(obj_list)
    /\ ~sanitize_ignores(obj_list[index].filename)
    /\ returned' = Append(returned, obj_list[index])
    /\ index' = index + 1
    /\ UNCHANGED <<pc, obj_list, tree_root, node>>

\* line 171
SanitizeReturn ==
    /\ pc = "sanitize"
    /\ index > Len(obj_list)
    /\ pc' = "sanitized"
    /\ UNCHANGED <<obj_list, index, tree_root, returned, node>>

NextSanitize == SanitizeIgnore \/ SanitizeAppend \/ SanitizeReturn

SpecSanitize == InitSanitize /\ [][NextSanitize]_vars

(***************************************************************************)
(* SpecIcon: update_node_with_attributes called, as lines 76 and 90 call   *)
(* it, on the node of the last segment of any entry.                       *)
(***************************************************************************)
IconChars == {"a", "B", ".", "/"}
IconObjs ==
    {ZipInfo(p, a) : p \in {q \in SeqsUpTo(IconChars, MaxPathLen) :
                                path_segments_of(q) # <<>>},
                     a \in Attrs}

InitIcon ==
    /\ obj_list \in {<<obj>> : obj \in IconObjs}
    /\ pc = "update"
    /\ index = 1
    /\ tree_root = new_tree_root
    /\ returned = <<>>
    /\ node = LET path_segments == path_segments_of(obj_list[1].filename)
              IN  [text |-> path_segments[Len(path_segments)], children |-> <<>>]

UpdateNode ==
    /\ pc = "update"
    /\ node' = update_node_with_attributes(node, obj_list[1],
                                            is_folder_of(obj_list[1].filename))
    /\ pc' = "updated"
    /\ UNCHANGED <<obj_list, index, tree_root, returned>>

NextIcon == UpdateNode

SpecIcon == InitIcon /\ [][NextIcon]_vars

(***************************************************************************)
(* Vocabulary of the properties.  The segment list of a path is defined    *)
(* here from the words "split on '/' and discard the empty segments", not  *)
(* through path_segments_of.                                               *)
(***************************************************************************)
\* the maximal runs of characters other than '/', in order
RECURSIVE SegmentsOf(_)
SegmentsOf(path) ==
    IF path = <<>> THEN <<>>
    ELSE IF Head(path) = "/" THEN SegmentsOf(Tail(path))
    ELSE LET rest == SegmentsOf(Tail(path)) IN
         IF Len(path) = 1 \/ path[2] = "/"
         THEN <<<<Head(path)>>>> \o rest
         ELSE <<<<Head(path)>> \o Head(rest)>> \o Tail(rest)

IsFolderEntry(obj) == endswith(obj.filename, <<"/">>)

\* every <<path, node>> with node a proper descendant of n, path its labels from n
RECURSIVE Located(_)
Located(n) ==
    UNION {{<<<<n.children[i].text>>, n.children[i]>>}
           \cup {<<<<n.children[i].text>> \o pn[1], pn[2]>> : pn \in Located(n.children[i])}
           : i \in 1..Len(n.children)}

RECURSIVE NodeCount(_)
NodeCount(n) ==
    LET F[k \in 0..Len(n.children)] ==
            IF k = 0 THEN 0 ELSE F[k - 1] + 1 + NodeCount(n.children[k])
    IN  F[Len(n.children)]

ChildLabels(n) == [i \in 1..Len(n.children) |-> n.children[i].text]

HasMetadata(n) == {"icon", "data"} \subseteq DOMAIN n
Bare(n) == DOMAIN n = {"text", "children"}
\* everything a node carries but its children
Attributes(n) == [k \in DOMAIN n \ {"children"} |-> n[k]]

FolderIcon == assets_url \o <<"/img/folder.png">>
\* a node whose metadata came from an entry that is not a folder
IsFileNode(n) == HasMetadata(n) /\ n.icon # FolderIcon

\* the entries the loop has folded so far
Folded == SubSeq(obj_list, 1, index - 1)

NonEmptyPrefixes(segments) == {SubSeq(segments, 1, k) : k \in 1..Len(segments)}

\* an iteration of the loop is taken on the entry obj_list[index]
AtEntry == pc = "loop" /\ index <= Len(obj_list)
Current == obj_list[index]

(***************************************************************************)
(* C1. For every entry list, obj_list_to_tree completes and returns a list *)
(* of exactly one root node labelled with the archive name plus extension: *)
(* the call never ends in an exception.                                    *)
(***************************************************************************)
C1_AlwaysReturnsOneRoot ==
    /\ pc \notin {"IndexError", "AssertionError"}
    /\ pc = "returned" =>
          /\ Len(returned) = 1
          /\ returned[1].text = metadata_name \o metadata_ext

UniqueChildLabels(n) ==
    \A i, j \in 1..Len(n.children) :
        n.children[i].text = n.children[j].text => i = j

(***************************************************************************)
(* C3. After folding any prefix of the entry list no node, the root        *)
(* included, has two children with the same label.                         *)
(***************************************************************************)
C3_SiblingLabelsUnique ==
    /\ UniqueChildLabels(tree_root)
    /\ \A pn \in Located(tree_root) : UniqueChildLabels(pn[2])

\* C3 witness: two folded entries passed through the same first segment and
\* the root has one child
C3_Witness ==
    /\ index = 3
    /\ SegmentsOf(obj_list[1].filename) # <<>>
    /\ SegmentsOf(obj_list[2].filename) # <<>>
    /\ SegmentsOf(obj_list[1].filename)[1] = SegmentsOf(obj_list[2].filename)[1]
    /\ Len(tree_root.children) = 1

(***************************************************************************)
(* C4. The label sequences of the non-root nodes are pairwise different    *)
(* and are exactly the non-empty prefixes of the segment lists of the      *)
(* folded entries, after every entry and so when the fold completes.       *)
(***************************************************************************)
C4_NodesAreEntryPrefixes ==
    LET paths == {pn[1] : pn \in Located(tree_root)} IN
    /\ paths = UNION {NonEmptyPrefixes(SegmentsOf(Folded[j].filename)) :
                        j \in 1..Len(Folded)}
    /\ NodeCount(tree_root) = Cardinality(paths)

\* C4 witness: the fold completed on two entries and left one node under
\* the root and one node below it
C4_Witness ==
    /\ pc = "returned"
    /\ Len(obj_list) = 2
    /\ NodeCount(tree_root) = 2
    /\ Len(tree_root.children) = 1
    /\ Len(tree_root.children[1].children) = 1

\* a node carries icon and data iff a folded entry terminated at its path,
\* and carries neither otherwise
C5_MetadataIffTerminated ==
    \A pn \in Located(tree_root) :
        /\ HasMetadata(pn[2]) <=>
              \E j \in 1..Len(Folded) : SegmentsOf(Folded[j].filename) = pn[1]
        /\ HasMetadata(pn[2]) \/ Bare(pn[2])

\* a step leaves the attributes of the nodes on a proper prefix of the
\* current entry's segments as they were
C5_DescentKeepsAttributes ==
    AtEntry =>
        \A pn \in Located(tree_root) :
            (/\ Len(pn[1]) < Len(SegmentsOf(Current.filename))
             /\ pn[1] = SubSeq(SegmentsOf(Current.filename), 1, Len(pn[1])))
            => \E qn \in Located(tree_root') :
                  qn[1] = pn[1] /\ Attributes(qn[2]) = Attributes(pn[2])

(***************************************************************************)
(* C5. A non-root node carries an icon and data exactly when a folded      *)
(* entry terminated at its path, and otherwise carries neither; a step of  *)
(* the fold leaves the attributes of every node it descends through as     *)
(* they were.                                                              *)
(***************************************************************************)
C5_MetadataOnlyAtTerminals ==
    []C5_MetadataIffTerminated /\ [][C5_DescentKeepsAttributes]_vars

\* C5 witness: the second entry descended through the node the first one
\* terminated at, and the two nodes carry different attributes
C5_Witness ==
    /\ index = 3
    /\ Len(SegmentsOf(obj_list[1].filename)) = 1
    /\ Len(SegmentsOf(obj_list[2].filename)) = 2
    /\ Len(tree_root.children) = 1
    /\ HasMetadata(tree_root.children[1])
    /\ Len(tree_root.children[1].children) = 1
    /\ Attributes(tree_root.children[1].children[1])
         # Attributes(tree_root.children[1])

\* pn is the existing node the final segment of the current entry matches
C6_FinalMatch(pn) == AtEntry /\ pn \in Located(tree_root)
                            /\ pn[1] = SegmentsOf(Current.filename)

(***************************************************************************)
(* C6. When the final segment of an entry matches an existing node, the    *)
(* fold fails with an assertion violation if that node is not a folder,    *)
(* and the entry's metadata is attached only when that node is a folder.   *)
(***************************************************************************)
C6_AssertsExistingNodeIsFolder ==
    [][\A pn \in Located(tree_root) :
          C6_FinalMatch(pn) =>
              /\ IsFileNode(pn[2]) => pc' = "AssertionError"
              /\ index' = index + 1 => ~IsFileNode(pn[2])]_vars

(***************************************************************************)
(* C7. A node that represents a file has no children.                      *)
(***************************************************************************)
C7_FileNodesAreLeaves ==
    \A pn \in Located(tree_root) : IsFileNode(pn[2]) => pn[2].children = <<>>

(***************************************************************************)
(* C8. An entry whose path has no segments is skipped: no error is raised, *)
(* the tree stays as it was and the loop goes on to the next entry.        *)
(***************************************************************************)
C8_EmptySegmentsSkipped ==
    [][(AtEntry /\ SegmentsOf(Current.filename) = <<>>) =>
          /\ pc' = "loop"
          /\ tree_root' = tree_root
          /\ index' = index + 1]_vars

\* the segments that follow `path' in the first k entries, in order of
\* first appearance
RECURSIVE Discovered(_, _)
Discovered(path, k) ==
    IF k = 0 THEN <<>>
    ELSE LET before == Discovered(path, k - 1)
             segments == SegmentsOf(obj_list[k].filename)
         IN  IF /\ Len(segments) > Len(path)
                /\ SubSeq(segments, 1, Len(path)) = path
                /\ \A i \in 1..Len(before) : before[i] # segments[Len(path) + 1]
             THEN Append(before, segments[Len(path) + 1])
             ELSE before

\* the children of every node are in first-discovery order
C10_DiscoveryOrder ==
    /\ ChildLabels(tree_root) = Discovered(<<>>, index - 1)
    /\ \A pn \in Located(tree_root) :
          ChildLabels(pn[2]) = Discovered(pn[1], index - 1)

\* new has old's label, and old's children, extended likewise, at their places
RECURSIVE Extends(_, _)
Extends(old, new) ==
    /\ old.text = new.text
    /\ Len(old.children) <= Len(new.children)
    /\ \A i \in 1..Len(old.children) : Extends(old.children[i], new.children[i])

(***************************************************************************)
(* C10. The children of every node are in the order in which the folded    *)
(* entries first named them, and a step of the fold only appends: every    *)
(* node keeps its label, and its children keep their places.               *)
(***************************************************************************)
C10_ChildrenAppendOnly ==
    []C10_DiscoveryOrder /\ [][Extends(tree_root, tree_root')]_vars

\* C10 witness: the second entry attached metadata to the node the first
\* entry had created with a child
C10_Witness ==
    /\ index = 3
    /\ Len(SegmentsOf(obj_list[1].filename)) = 2
    /\ Len(SegmentsOf(obj_list[2].filename)) = 1
    /\ Len(tree_root.children) = 1
    /\ HasMetadata(tree_root.children[1])
    /\ Len(tree_root.children[1].children) = 1

\* the three conditions under which an entry is dropped
C2_Removed(path) ==
    \/ \E k \in 0..Len(path) : SubSeq(path, 1, k) = MACOSX \o <<"/">>
    \/ path = DS_Store
    \/ \E k \in 1..(Len(path) + 1) : SubSeq(path, k, Len(path)) = <<"/">> \o DS_Store

(***************************************************************************)
(* C2. sanitize_obj_list keeps the entries in their order and drops        *)
(* exactly those whose path starts with '__MACOSX/', is '.DS_Store' or     *)
(* ends with '/.DS_Store'.  (SpecSanitize)                                 *)
(***************************************************************************)
C2_SanitizeIsOrderedFilter ==
    /\ returned = SelectSeq(Folded, LAMBDA obj : ~C2_Removed(obj.filename))
    /\ pc = "sanitized" => Folded = obj_list

\* C2 witness: the call returned with the first of two entries dropped and
\* the second kept
C2_Witness ==
    /\ pc = "sanitized"
    /\ Len(obj_list) = 2
    /\ returned = <<obj_list[2]>>
    /\ obj_list[1] # obj_list[2]

LastSegment(obj) == LET segments == SegmentsOf(obj.filename) IN segments[Len(segments)]

\* the text after the last '.' of the final segment, lower-cased; empty
\* when the segment has no '.'
C9_TextAfterLastDot(segment) ==
    IF \A i \in 1..Len(segment) : segment[i] # "."
    THEN <<>>
    ELSE lower(SubSeq(segment, rfind(segment, ".") + 1, Len(segment)))

\* as above, and empty too when only '.' characters precede the last '.'
C9_Extension(segment) ==
    IF \A i \in 1..(rfind(segment, ".") - 1) : segment[i] = "."
    THEN <<>>
    ELSE C9_TextAfterLastDot(segment)

C9_IconFor(obj, ext) ==
    IF IsFolderEntry(obj) THEN FolderIcon
    ELSE IF icon_exists(ext)
         THEN assets_url \o <<"/img/file-ext-">> \o ext \o <<".png">>
         ELSE assets_url \o <<"/img/file-ext-generic.png">>

(***************************************************************************)
(* C9 as stated. update_node_with_attributes gives a folder entry the      *)
(* folder icon and a file entry the icon of its extension when             *)
(* icon_exists(ext), the generic file icon otherwise, ext being the        *)
(* lower-cased text after the last '.' of the final segment.  (SpecIcon)   *)
(***************************************************************************)
C9_IconByTextAfterLastDot ==
    pc = "updated" =>
        node.icon = C9_IconFor(obj_list[1], C9_TextAfterLastDot(LastSegment(obj_list[1])))

(***************************************************************************)
(* C9 as amended. A folder entry gets the folder icon and a file entry the *)
(* icon of its extension when icon_exists(ext), the generic file icon      *)
(* otherwise, ext being the lower-cased text after the last '.' of the     *)
(* final segment, and empty when the segment has no '.' or when only '.'   *)
(* characters precede its last '.'.  (SpecIcon)                            *)
(***************************************************************************)
C9_IconByExtension ==
    pc = "updated" =>
        node.icon = C9_IconFor(obj_list[1], C9_Extension(LastSegment(obj_list[1])))

\* C9 witness: a file with an upper-case extension that has an icon got the
\* icon of the lower-cased extension
C9_Witness ==
    /\ pc = "updated"
    /\ ~IsFolderEntry(obj_list[1])
    /\ C9_Extension(LastSegment(obj_list[1])) \in IconFiles
    /\ splitext_ext(obj_list[1].filename) # lower(splitext_ext(obj_list[1].filename))
    /\ node.icon = assets_url \o <<"/img/file-ext-", "b", ".png">>

====
